---- MODULE Spec2Model ----
(***************************************************************************)
(* Model of main.py: the spreadsheet path of the COVID-19 data pull.       *)
(* Names are sequences of one-character strings, so that the sanitizer     *)
(* and the sheet matcher are computed character by character as the code   *)
(* computes them.                                                          *)
(***************************************************************************)
EXTENDS Integers, Sequences, FiniteSets, TLC

----------------------------------------------------------------------------
(* Parameters (main.py 27-41)                                              *)

\* tolerable_levenshtein_ratio = 0.1, kept as the fraction 1 / 10
tolerable_levenshtein_ratio_den == 10

col_chars_underscore_list == <<" ", "/", "-">>

col_chars_eliminate_list == <<"(", ")", "*", ".", "=">>

total_upload_attempts == 5

----------------------------------------------------------------------------
(* String primitives of Python used by the helpers                         *)

Digits == {"0", "1", "2", "3", "4", "5", "6", "7", "8", "9"}

LowerMap ==
  [c \in {"A","B","C","D","E","F","G","H","I","J","K","L","M","N","O","P","Q",
          "R","S","T","U","V","W","X","Y","Z"} |->
     CASE c = "A" -> "a" [] c = "B" -> "b" [] c = "C" -> "c" [] c = "D" -> "d"
       [] c = "E" -> "e" [] c = "F" -> "f" [] c = "G" -> "g" [] c = "H" -> "h"
       [] c = "I" -> "i" [] c = "J" -> "j" [] c = "K" -> "k" [] c = "L" -> "l"
       [] c = "M" -> "m" [] c = "N" -> "n" [] c = "O" -> "o" [] c = "P" -> "p"
       [] c = "Q" -> "q" [] c = "R" -> "r" [] c = "S" -> "s" [] c = "T" -> "t"
       [] c = "U" -> "u" [] c = "V" -> "v" [] c = "W" -> "w" [] c = "X" -> "x"
       [] c = "Y" -> "y" [] c = "Z" -> "z"]

\* str.lower()
Lower(s) == [i \in DOMAIN s |-> IF s[i] \in DOMAIN LowerMap THEN LowerMap[s[i]] ELSE s[i]]

\* sub in s
Contains(s, sub) ==
  \E i \in 1..(Len(s) - Len(sub) + 1) : SubSeq(s, i, i + Len(sub) - 1) = sub

\* s.replace(old, new) for a non-empty old: leftmost non-overlapping occurrences
RECURSIVE Replace(_, _, _)
Replace(s, old, new) ==
  IF Len(s) < Len(old) THEN s
  ELSE IF SubSeq(s, 1, Len(old)) = old
       THEN new \o Replace(SubSeq(s, Len(old) + 1, Len(s)), old, new)
       ELSE <<Head(s)>> \o Replace(Tail(s), old, new)

\* for char in chars: s = s.replace(char, new)
RECURSIVE ReplaceEach(_, _, _)
ReplaceEach(s, chars, new) ==
  IF chars = <<>> THEN s
  ELSE ReplaceEach(Replace(s, <<Head(chars)>>, new), Tail(chars), new)

\* math.ceil(n * 0.1); the floating-point product rounds up to the same
\* integer as the exact quotient for every length below 200
CeilRatio(n) == (n + tolerable_levenshtein_ratio_den - 1) \div tolerable_levenshtein_ratio_den

Min3(a, b, c) == IF a <= b THEN (IF a <= c THEN a ELSE c) ELSE (IF b <= c THEN b ELSE c)

\* one row of the edit-distance table: row[j+1] = D[i][j]
RECURSIVE LevRow(_, _, _, _, _)
LevRow(prev, c, b, row, j) ==
  IF j > Len(b) THEN row
  ELSE LevRow(prev, c, b,
              Append(row, Min3(prev[j + 1] + 1, row[j] + 1,
                               prev[j] + (IF c = b[j] THEN 0 ELSE 1))),
              j + 1)

\* the rows in turn; the result is the last cell of the last row
RECURSIVE LevRows(_, _, _, _)
LevRows(a, b, prev, i) ==
  IF i > Len(a) THEN prev[Len(b) + 1]
  ELSE LET row == LevRow(prev, a[i], b, <<i>>, 1)
       IN  IF Len(row) = Len(b) + 1 THEN LevRows(a, b, row, i + 1) ELSE -1

\* Levenshtein.distance: unit-cost insert, delete, substitute
distance(a, b) == LevRows(a, b, [j \in 1..(Len(b) + 1) |-> j - 1], 1)

----------------------------------------------------------------------------
(* Helper functions (main.py 51-79)                                        *)

\* the body of the loop of process_cols for one column name
renamed_col(col) ==
  LET r1 == IF col # <<>> /\ Head(col) \in Digits THEN <<"_">> \o col ELSE col
      r2 == IF /\ Contains(col, <<"1","0","0","0","0","0">>)
               /\ ~Contains(col, <<"1","0","0","0","0","0","0">>)
            THEN Replace(col, <<"1","0","0","0","0","0">>, <<"1","0","0","k">>)
            ELSE r1
      r3 == ReplaceEach(r2, col_chars_underscore_list, <<"_">>)
  IN  ReplaceEach(r3, col_chars_eliminate_list, <<>>)

\* df.rename(columns={col: new}) on the list of column names
Rename(columns, col, new) ==
  [k \in DOMAIN columns |-> IF columns[k] = col THEN new ELSE columns[k]]

RECURSIVE process_cols_from(_, _, _)
process_cols_from(orig, columns, i) ==
  IF i > Len(orig) THEN columns
  ELSE process_cols_from(orig,
         IF renamed_col(orig[i]) # orig[i]
         THEN Rename(columns, orig[i], renamed_col(orig[i]))
         ELSE columns,
         i + 1)

\* process_cols(df), on df.columns
process_cols(columns) == process_cols_from(columns, columns, 1)

\* the matcher with the slack taken from the second name
levenshtein_dist_ok_target_len(str_1, str_2) ==
  LET processed_str_1 == Replace(Lower(str_1), <<" ">>, <<>>)
      processed_str_2 == Replace(Lower(str_2), <<" ">>, <<>>)
  IN  distance(processed_str_1, processed_str_2) <= CeilRatio(Len(str_2))

levenshtein_dist_ok(str_1, str_2) ==
  LET processed_str_1 == Replace(Lower(str_1), <<" ">>, <<>>)
      processed_str_2 == Replace(Lower(str_2), <<" ">>, <<>>)
  IN  distance(processed_str_1, processed_str_2) <= CeilRatio(Len(str_1))

----------------------------------------------------------------------------
(* The fixed mappings of main (main.py 156-165, 252-255), in dict order    *)

daily_tab_to_bq_relation_dict ==
  <<[name |-> "HospBedAvailable-Regional",
     tab |-> <<"H","o","s","p","B","e","d","A","v","a","i","l","a","b","l","e","-","R","e","g","i","o","n","a","l">>,
     rel |-> "Regional_Bed_Availability"],
    [name |-> "HospBed-Hospital COVID Census",
     tab |-> <<"H","o","s","p","B","e","d","-","H","o","s","p","i","t","a","l"," ","C","O","V","I","D"," ","C","e","n","s","u","s">>,
     rel |-> "Hospital_COVID_Census"],
    [name |-> "Hospitalization from Hospitals",
     tab |-> <<"H","o","s","p","i","t","a","l","i","z","a","t","i","o","n"," ","f","r","o","m"," ","H","o","s","p","i","t","a","l","s">>,
     rel |-> "Hospitalization_from_Hospitals"],
    [name |-> "LTC Facilities",
     tab |-> <<"L","T","C"," ","F","a","c","i","l","i","t","i","e","s">>,
     rel |-> "LTC_Facilities"],
    [name |-> "TestingByDate (Test Date)",
     tab |-> <<"T","e","s","t","i","n","g","B","y","D","a","t","e"," ","(","T","e","s","t"," ","D","a","t","e",")">>,
     rel |-> "TestingByDate"],
    [name |-> "AgeLast2Weeks",
     tab |-> <<"A","g","e","L","a","s","t","2","W","e","e","k","s">>,
     rel |-> "AgeLast2Weeks"],
    [name |-> "CountyDeaths",
     tab |-> <<"C","o","u","n","t","y","D","e","a","t","h","s">>,
     rel |-> "CountyDeathsLast2Weeks"],
    [name |-> "County_Weekly",
     tab |-> <<"C","o","u","n","t","y","_","W","e","e","k","l","y">>,
     rel |-> "County_Weekly"]>>

weekly_tab_to_bq_relation_dict ==
  <<[name |-> "LTCF", tab |-> <<"L","T","C","F">>, rel |-> "LTCF"],
    [name |-> "ALR", tab |-> <<"A","L","R">>, rel |-> "ALR"]>>

----------------------------------------------------------------------------
(* Inputs: the workbooks, the outcomes of parsing and of the load call     *)

\* longest workbook considered, in tabs
MaxDailyTabs == 2

MaxWeeklyTabs == 1

\* tab names a daily workbook may carry: "County_Weekly" (exact),
\* "County Weekly" (accepted, inexact) and "Notes" (no target accepts it)
DailySheetNames ==
  { <<"C","o","u","n","t","y","_","W","e","e","k","l","y">>,
    <<"C","o","u","n","t","y"," ","W","e","e","k","l","y">>,
    <<"N","o","t","e","s">> }

\* tab names a weekly workbook may carry: "LTCF" (exact) and "L    T    R"
\* (inexact; eleven characters, which puts it within tolerance of both targets)
WeeklySheetNames ==
  { <<"L","T","C","F">>,
    <<"L"," "," "," "," ","T"," "," "," "," ","R">> }

Workbooks(names, n) == UNION { [1..k -> names] : k \in 0..n }

\* columns a type-coercion failure may name
UploadCols == {"X", "Y"}

\* outcome of excel_file.parse followed by the normalisation, inside the try
ParseResults == {"ok", "parse_error", "normalize_error"}

\* outcome of load_table_from_dataframe(...).result():
\*   ok             the load job succeeded
\*   coerce c       ArrowTypeError "Expected a bytes object, got a 'int'
\*                  object", "... failed for column c with type ..."
\*   coerce_unnamed ArrowTypeError with the first message and no column
\*   arrow_other    ArrowTypeError with any other message
\*   error          any exception that is not an ArrowTypeError
LoadResults ==
  { <<"ok", "">>, <<"coerce_unnamed", "">>, <<"arrow_other", "">>, <<"error", "">> }
    \cup { <<"coerce", c>> : c \in UploadCols }

----------------------------------------------------------------------------
(* State of one run of main                                                *)

VARIABLES
  verbose,                 \* parameter of main
  daily_sheet_names,       \* daily_excel_file.sheet_names
  weekly_sheet_names,      \* weekly_excel_file.sheet_names
  pc,                      \* position in main
  index,                   \* enumerate index of act_tab, from 1
  tgt,                     \* position of tgt_tab in the mapping, from 1
  attempt,                 \* loop variable of the retry loop, 0 outside it
  exc,                     \* the exception that left main, "" if none
  df,                      \* the local df: src <<>> while unbound
  daily_tab_status_dict,
  weekly_tab_status_dict,
  printed,                 \* lines written by print, <<kind, phase, name>>: the
                           \* discrepancy, failure, upload and summary lines
  last_load,               \* the load call made by the last step, if it made one
  nloads,                  \* load calls made so far in the current retry loop
  loads,                   \* every load call made: what was sent where
  loaded,                  \* relations for which a load call succeeded
  str_1, str_2, dist_ok,   \* a call of levenshtein_dist_ok and its result
  columns, new_columns,    \* a call of process_cols: df.columns before, after
  fpc                      \* position of the helper call

runvars == <<verbose, daily_sheet_names, weekly_sheet_names, pc, index, tgt,
             attempt, exc, df, daily_tab_status_dict, weekly_tab_status_dict,
             printed, last_load, nloads, loads, loaded>>

fnvars == <<str_1, str_2, dist_ok, columns, new_columns, fpc>>

vars == <<verbose, daily_sheet_names, weekly_sheet_names, pc, index, tgt,
          attempt, exc, df, daily_tab_status_dict, weekly_tab_status_dict,
          printed, last_load, nloads, loads, loaded,
          str_1, str_2, dist_ok, columns, new_columns, fpc>>

\* the step made no load call
NoLoad == [res |-> "none", col |-> "", phase |-> "", name |-> ""]

\* df before its first assignment
Unbound == [src |-> <<>>, normalized |-> FALSE, str_cols |-> {}]

\* the handler without its cast: the table is sent again unchanged
CastToStr_skipped(d, col_name) == d

\* df[col_name] = df[col_name].astype(str) (main.py 214, 301)
CastToStr(d, col_name) == [d EXCEPT !.str_cols = @ \cup {col_name}]

\* d[k] = v on a dict
Put(d, k, v) == [x \in DOMAIN d \cup {k} |-> IF x = k THEN v ELSE d[x]]

RECURSIVE SumOver(_, _)
SumOver(d, keys) ==
  IF keys = {} THEN 0
  ELSE LET k == CHOOSE x \in keys : TRUE IN d[k] + SumOver(d, keys \ {k})

\* sum(d.values())
SumValues(d) == SumOver(d, DOMAIN d)

FnIdle ==
  /\ str_1 = <<>> /\ str_2 = <<>> /\ dist_ok = FALSE
  /\ columns = <<>> /\ new_columns = <<>> /\ fpc = "idle"

RunIdle ==
  /\ verbose = 0 /\ daily_sheet_names = <<>> /\ weekly_sheet_names = <<>>
  /\ pc = "idle" /\ index = 1 /\ tgt = 1 /\ attempt = 0 /\ exc = ""
  /\ df = Unbound
  /\ daily_tab_status_dict = <<>> /\ weekly_tab_status_dict = <<>>
  /\ printed = {} /\ last_load = NoLoad /\ nloads = 0 /\ loads = {} /\ loaded = {}

\* main, on entry to the loop over the daily workbook (main.py 167-175);
\* the weekly workbook is not opened yet
Init ==
  /\ verbose \in 0..2
  /\ daily_sheet_names \in Workbooks(DailySheetNames, MaxDailyTabs)
  /\ weekly_sheet_names = <<>>
  /\ pc = IF daily_sheet_names = <<>> THEN "daily_summary" ELSE "daily_match"
  /\ index = 1 /\ tgt = 1 /\ attempt = 0 /\ exc = ""
  /\ df = Unbound
  /\ daily_tab_status_dict = <<>> /\ weekly_tab_status_dict = <<>>
  /\ printed = {} /\ last_load = NoLoad /\ nloads = 0 /\ loads = {} /\ loaded = {}
  /\ FnIdle

Ctl(p, i, t, a, x) ==
  /\ pc' = p /\ index' = i /\ tgt' = t /\ attempt' = a /\ exc' = x

\* an exception leaves main
Raise(x) == Ctl("crashed", index, tgt, attempt, x)

\* next iteration of the two nested loops of the daily phase; attempt is
\* not read again before the next retry loop assigns it, and is kept at 0
\* outside the retry loop
DailyAdvance ==
  IF tgt < Len(daily_tab_to_bq_relation_dict)
  THEN Ctl("daily_match", index, tgt + 1, 0, exc)
  ELSE IF index < Len(daily_sheet_names)
       THEN Ctl("daily_match", index + 1, 1, 0, exc)
       ELSE Ctl("daily_summary", index, tgt, 0, exc)

WeeklyAdvance ==
  IF tgt < Len(weekly_tab_to_bq_relation_dict)
  THEN Ctl("weekly_match", index, tgt + 1, 0, exc)
  ELSE IF index < Len(weekly_sheet_names)
       THEN Ctl("weekly_match", index + 1, 1, 0, exc)
       ELSE Ctl("weekly_summary", index, tgt, 0, exc)

----------------------------------------------------------------------------
(* The daily phase (main.py 175-231)                                       *)

\* main.py 176-179: one evaluation of the match for (act_tab, tgt_tab)
DailyMatch ==
  /\ pc = "daily_match"
  /\ LET act_tab == daily_sheet_names[index]
         e == daily_tab_to_bq_relation_dict[tgt]
     IN  IF levenshtein_dist_ok(act_tab, e.tab)
         THEN /\ printed' = IF act_tab # e.tab /\ verbose >= 1
                            THEN printed \cup {<<"mismatch", "daily", e.name>>}
                            ELSE printed
              /\ Ctl("daily_parse", index, tgt, attempt, exc)
         ELSE /\ printed' = printed
              /\ DailyAdvance
  /\ UNCHANGED <<verbose, daily_sheet_names, weekly_sheet_names, df,
                 daily_tab_status_dict, weekly_tab_status_dict,
                 loads, loaded>>
  /\ last_load' = NoLoad /\ nloads' = 0
  /\ UNCHANGED fnvars

\* main.py 181-198: the try around parse and normalisation; the handler
\* falls through to the retry loop
DailyParse ==
  /\ pc = "daily_parse"
  /\ LET e == daily_tab_to_bq_relation_dict[tgt] IN
     \E res \in ParseResults :
       /\ df' = CASE res = "ok" ->
                       [src |-> <<"daily", index>>, normalized |-> TRUE, str_cols |-> {}]
                  [] res = "normalize_error" ->
                       [src |-> <<"daily", index>>, normalized |-> FALSE, str_cols |-> {}]
                  [] res = "parse_error" -> df
       /\ daily_tab_status_dict' =
            IF res = "ok" THEN daily_tab_status_dict
            ELSE Put(daily_tab_status_dict, e.name, 0)
       /\ printed' = IF res = "ok" THEN printed
                     ELSE printed \cup {<<"unable", "daily", e.name>>}
  /\ last_load' = NoLoad /\ nloads' = 0
  /\ Ctl("daily_load", index, tgt, 1, exc)
  /\ UNCHANGED <<verbose, daily_sheet_names, weekly_sheet_names,
                 weekly_tab_status_dict, loads, loaded>>
  /\ UNCHANGED fnvars

\* main.py 200-222: one iteration of the retry loop
DailyLoad ==
  /\ pc = "daily_load"
  /\ LET e == daily_tab_to_bq_relation_dict[tgt] IN
     IF df.src = <<>>
     THEN \* df is read before any assignment: NameError
          /\ Raise("NameError df")
          /\ last_load' = NoLoad /\ nloads' = 0
          /\ UNCHANGED <<df, daily_tab_status_dict, printed, loads, loaded>>
     ELSE \E res \in LoadResults :
          /\ last_load' = [res |-> res[1], col |-> res[2], phase |-> "daily", name |-> e.name]
          /\ nloads' = nloads + 1
          /\ loads' = loads \cup {[phase |-> "daily", index |-> index, rel |-> e.rel,
                                   src |-> df.src, normalized |-> df.normalized]}
          /\ CASE res[1] = "ok" ->
                    /\ daily_tab_status_dict' = Put(daily_tab_status_dict, e.name, 1)
                    /\ loaded' = loaded \cup {e.rel}
                    /\ df' = df
                    /\ IF attempt = total_upload_attempts
                       THEN \* the message reads e, which no handler left bound
                            /\ Raise("NameError e")
                            /\ printed' = printed
                       ELSE /\ printed' = IF verbose >= 2
                                          THEN printed \cup {<<"uploaded", "daily", e.name>>}
                                          ELSE printed
                            /\ DailyAdvance
              [] res[1] = "coerce" ->
                    /\ daily_tab_status_dict' = Put(daily_tab_status_dict, e.name, 0)
                    /\ printed' = printed
                    /\ df' = CastToStr(df, res[2])
                    /\ loaded' = loaded
                    /\ IF attempt < total_upload_attempts
                       THEN Ctl("daily_load", index, tgt, attempt + 1, exc)
                       ELSE DailyAdvance
              [] res[1] = "coerce_unnamed" ->
                    \* re.search(...) is None: AttributeError inside the handler
                    /\ daily_tab_status_dict' = Put(daily_tab_status_dict, e.name, 0)
                    /\ Raise("AttributeError")
                    /\ UNCHANGED <<df, printed, loaded>>
              [] res[1] = "arrow_other" ->
                    /\ daily_tab_status_dict' = Put(daily_tab_status_dict, e.name, 0)
                    /\ UNCHANGED <<df, printed, loaded>>
                    /\ IF attempt < total_upload_attempts
                       THEN Ctl("daily_load", index, tgt, attempt + 1, exc)
                       ELSE DailyAdvance
              [] res[1] = "error" ->
                    \* no handler: the exception leaves main
                    /\ Raise("UploadError")
                    /\ UNCHANGED <<df, daily_tab_status_dict, printed, loaded>>
  /\ UNCHANGED <<verbose, daily_sheet_names, weekly_sheet_names, weekly_tab_status_dict>>
  /\ UNCHANGED fnvars

\* main.py 224-250: the summary of the daily phase, then the weekly
\* workbook is fetched and opened
DailySummary ==
  /\ pc = "daily_summary"
  /\ printed' =
       IF verbose >= 1
       THEN IF SumValues(daily_tab_status_dict) = Len(daily_tab_to_bq_relation_dict)
            THEN printed \cup {<<"all_loaded", "daily", "">>}
            ELSE printed \cup {<<"failed_some", "daily", "">>}
                         \cup { <<"listed", "daily", table>> :
                                  table \in { k \in DOMAIN daily_tab_status_dict :
                                                daily_tab_status_dict[k] = 0 } }
       ELSE printed
  /\ weekly_sheet_names' \in Workbooks(WeeklySheetNames, MaxWeeklyTabs)
  /\ Ctl(IF weekly_sheet_names' = <<>> THEN "weekly_summary" ELSE "weekly_match",
         1, 1, attempt, exc)
  /\ UNCHANGED <<verbose, daily_sheet_names, df,
                 daily_tab_status_dict, weekly_tab_status_dict,
                 loads, loaded>>
  /\ last_load' = NoLoad /\ nloads' = 0
  /\ UNCHANGED fnvars

----------------------------------------------------------------------------
(* The weekly phase (main.py 260-321)                                      *)

\* main.py 261-266
WeeklyMatch ==
  /\ pc = "weekly_match"
  /\ LET act_tab == weekly_sheet_names[index]
         e == weekly_tab_to_bq_relation_dict[tgt]
     IN  IF levenshtein_dist_ok(act_tab, e.tab)
         THEN IF e.tab # act_tab /\ verbose >= 1
              THEN \* the message reads sheet_name, defined nowhere: NameError
                   Raise("NameError sheet_name")
              ELSE Ctl("weekly_parse", index, tgt, attempt, exc)
         ELSE WeeklyAdvance
  /\ UNCHANGED <<verbose, daily_sheet_names, weekly_sheet_names, df,
                 daily_tab_status_dict, weekly_tab_status_dict,
                 printed, loads, loaded>>
  /\ last_load' = NoLoad /\ nloads' = 0
  /\ UNCHANGED fnvars

\* main.py 268-285: the handler ends with continue
WeeklyParse ==
  /\ pc = "weekly_parse"
  /\ LET e == weekly_tab_to_bq_relation_dict[tgt] IN
     \E res \in ParseResults :
       /\ df' = CASE res = "ok" ->
                       [src |-> <<"weekly", index>>, normalized |-> TRUE, str_cols |-> {}]
                  [] res = "normalize_error" ->
                       [src |-> <<"weekly", index>>, normalized |-> FALSE, str_cols |-> {}]
                  [] res = "parse_error" -> df
       /\ weekly_tab_status_dict' =
            IF res = "ok" THEN weekly_tab_status_dict
            ELSE Put(weekly_tab_status_dict, e.name, 0)
       /\ printed' = IF res = "ok" THEN printed
                     ELSE printed \cup {<<"unable", "weekly", e.name>>}
       /\ IF res = "ok"
          THEN Ctl("weekly_load", index, tgt, 1, exc)
          ELSE WeeklyAdvance
  /\ last_load' = NoLoad /\ nloads' = 0
  /\ UNCHANGED <<verbose, daily_sheet_names, weekly_sheet_names,
                 daily_tab_status_dict, loads, loaded>>
  /\ UNCHANGED fnvars

\* main.py 287-309: one iteration of the retry loop
WeeklyLoad ==
  /\ pc = "weekly_load"
  /\ LET e == weekly_tab_to_bq_relation_dict[tgt] IN
     \E res \in LoadResults :
          /\ last_load' = [res |-> res[1], col |-> res[2], phase |-> "weekly", name |-> e.name]
          /\ nloads' = nloads + 1
          /\ loads' = loads \cup {[phase |-> "weekly", index |-> index, rel |-> e.rel,
                                   src |-> df.src, normalized |-> df.normalized]}
          /\ CASE res[1] = "ok" ->
                    /\ weekly_tab_status_dict' = Put(weekly_tab_status_dict, e.name, 1)
                    /\ loaded' = loaded \cup {e.rel}
                    /\ df' = df
                    /\ IF attempt = total_upload_attempts
                       THEN /\ Raise("NameError e")
                            /\ printed' = printed
                       ELSE /\ printed' = IF verbose >= 2
                                          THEN printed \cup {<<"uploaded", "weekly", e.name>>}
                                          ELSE printed
                            /\ WeeklyAdvance
              [] res[1] = "coerce" ->
                    /\ weekly_tab_status_dict' = Put(weekly_tab_status_dict, e.name, 0)
                    /\ printed' = printed
                    /\ df' = CastToStr(df, res[2])
                    /\ loaded' = loaded
                    /\ IF attempt < total_upload_attempts
                       THEN Ctl("weekly_load", index, tgt, attempt + 1, exc)
                       ELSE WeeklyAdvance
              [] res[1] = "coerce_unnamed" ->
                    /\ weekly_tab_status_dict' = Put(weekly_tab_status_dict, e.name, 0)
                    /\ Raise("AttributeError")
                    /\ UNCHANGED <<df, printed, loaded>>
              [] res[1] = "arrow_other" ->
                    /\ weekly_tab_status_dict' = Put(weekly_tab_status_dict, e.name, 0)
                    /\ UNCHANGED <<df, printed, loaded>>
                    /\ IF attempt < total_upload_attempts
                       THEN Ctl("weekly_load", index, tgt, attempt + 1, exc)
                       ELSE WeeklyAdvance
              [] res[1] = "error" ->
                    /\ Raise("UploadError")
                    /\ UNCHANGED <<df, weekly_tab_status_dict, printed, loaded>>
  /\ UNCHANGED <<verbose, daily_sheet_names, weekly_sheet_names, daily_tab_status_dict>>
  /\ UNCHANGED fnvars

\* main.py 311-318
WeeklySummary ==
  /\ pc = "weekly_summary"
  /\ printed' =
       IF verbose >= 1
       THEN IF SumValues(weekly_tab_status_dict) = Len(weekly_tab_to_bq_relation_dict)
            THEN printed \cup {<<"all_loaded", "weekly", "">>}
            ELSE printed \cup {<<"failed_some", "weekly", "">>}
                         \cup { <<"listed", "weekly", table>> :
                                  table \in { k \in DOMAIN weekly_tab_status_dict :
                                                weekly_tab_status_dict[k] = 0 } }
       ELSE printed
  /\ Ctl("final_print", index, tgt, attempt, exc)
  /\ UNCHANGED <<verbose, daily_sheet_names, weekly_sheet_names, df,
                 daily_tab_status_dict, weekly_tab_status_dict,
                 loads, loaded>>
  /\ last_load' = NoLoad /\ nloads' = 0
  /\ UNCHANGED fnvars

\* main.py 320-321: the same success line, outside the test of the statuses
FinalPrint ==
  /\ pc = "final_print"
  /\ printed' = IF verbose >= 1
                THEN printed \cup {<<"all_loaded", "weekly", "">>}
                ELSE printed
  /\ Ctl("done", index, tgt, attempt, exc)
  /\ UNCHANGED <<verbose, daily_sheet_names, weekly_sheet_names, df,
                 daily_tab_status_dict, weekly_tab_status_dict,
                 loads, loaded>>
  /\ last_load' = NoLoad /\ nloads' = 0
  /\ UNCHANGED fnvars

Next ==
  \/ DailyMatch
  \/ DailyParse
  \/ DailyLoad
  \/ DailySummary
  \/ WeeklyMatch
  \/ WeeklyParse
  \/ WeeklyLoad
  \/ WeeklySummary
  \/ FinalPrint

Spec == Init /\ [][Next]_vars

----------------------------------------------------------------------------
(* The sheet matcher on its own: one call of levenshtein_dist_ok           *)

\* longest name, spaces apart, given to the matcher as the actual tab name
MaxNameLen == 4

\* most spaces a given name carries
MaxPad == 8

MatchAlphabet == {"L", "t", "C", "F"}

Spaces(k) == [i \in 1..k |-> " "]

\* the name b with k spaces after its first character
Padded(b, k) == IF b = <<>> THEN Spaces(k) ELSE <<Head(b)>> \o Spaces(k) \o Tail(b)

ActualNames ==
  { Padded(b, k) : b \in Workbooks(MatchAlphabet, MaxNameLen), k \in 0..MaxPad }

\* the keys of the two mappings
TargetNames ==
  { daily_tab_to_bq_relation_dict[t].tab : t \in DOMAIN daily_tab_to_bq_relation_dict }
    \cup
  { weekly_tab_to_bq_relation_dict[t].tab : t \in DOMAIN weekly_tab_to_bq_relation_dict }

InitMatch ==
  /\ str_1 \in ActualNames
  /\ str_2 \in TargetNames
  /\ dist_ok = FALSE
  /\ columns = <<>> /\ new_columns = <<>>
  /\ fpc = "call"
  /\ RunIdle

\* main.py 177, 262: levenshtein_dist_ok(act_tab, tgt_tab)
CallMatch ==
  /\ fpc = "call"
  /\ dist_ok' = levenshtein_dist_ok(str_1, str_2)
  /\ fpc' = "return"
  /\ UNCHANGED <<str_1, str_2, columns, new_columns>>
  /\ UNCHANGED runvars

NextMatch == CallMatch

SpecMatch == InitMatch /\ [][NextMatch]_vars

----------------------------------------------------------------------------
(* The column sanitizer on its own: one call of process_cols               *)

\* longest column name
MaxColLen == 7

ColAlphabet == {"1", "0", " ", "("}

ColNames == UNION { [1..k -> ColAlphabet] : k \in 1..MaxColLen }

InitCols ==
  /\ columns \in { <<c>> : c \in ColNames }
  /\ new_columns = <<>>
  /\ str_1 = <<>> /\ str_2 = <<>> /\ dist_ok = FALSE
  /\ fpc = "call"
  /\ RunIdle

\* main.py 185, 272: df = process_cols(df)
CallProcessCols ==
  /\ fpc = "call"
  /\ new_columns' = process_cols(columns)
  /\ fpc' = "return"
  /\ UNCHANGED <<str_1, str_2, dist_ok, columns>>
  /\ UNCHANGED runvars

NextCols == CallProcessCols

SpecCols == InitCols /\ [][NextCols]_vars

----------------------------------------------------------------------------
(* Properties                                                              *)

LoadPcs == {"daily_load", "weekly_load"}

StatusOf(phase) ==
  IF phase = "daily" THEN daily_tab_status_dict ELSE weekly_tab_status_dict

MappingOf(phase) ==
  IF phase = "daily" THEN daily_tab_to_bq_relation_dict ELSE weekly_tab_to_bq_relation_dict

MarkedFailed(phase, name) ==
  name \in DOMAIN StatusOf(phase) /\ StatusOf(phase)[name] = 0

MarkedSucceeded(phase, name) ==
  name \in DOMAIN StatusOf(phase) /\ StatusOf(phase)[name] = 1

\* the pair the match step is about to evaluate
AtMatch == pc \in {"daily_match", "weekly_match"}

CurAct == IF pc = "daily_match" THEN daily_sheet_names[index] ELSE weekly_sheet_names[index]

CurTgt ==
  IF pc = "daily_match" THEN daily_tab_to_bq_relation_dict[tgt]
  ELSE weekly_tab_to_bq_relation_dict[tgt]

CurPhase == IF pc = "daily_match" THEN "daily" ELSE "weekly"

\* case-folded, spaces stripped
Folded(s) == SelectSeq(Lower(s), LAMBDA c : c # " ")

\* C1: a load failure other than the type-coercion failure ends the retry
\* loop at once (no further load attempt for the relation) and leaves the
\* relation marked failed in the status the summary reads.
C1_OtherErrorAborts ==
  last_load.res \in {"arrow_other", "error"} =>
    /\ pc \notin LoadPcs
    /\ MarkedFailed(last_load.phase, last_load.name)

\* C2 as stated: after a type-coercion failure naming a column, that column
\* is cast to string and a further load attempt follows, and the attempts of
\* one retry loop never exceed the budget.
C2_RetryAlwaysFollows ==
  last_load.res = "coerce" =>
    /\ last_load.col \in df.str_cols
    /\ pc \in LoadPcs
    /\ nloads <= total_upload_attempts

\* C2 amended: a type-coercion failure naming a column casts exactly that
\* column of the table in memory; if the failed attempt was not the last of
\* the budget the next step is the next load attempt for the same tab and
\* target, on that table, and if it was the last the retry loop is over with
\* no further attempt; a retry loop never makes more than
\* total_upload_attempts load calls.
C2_CoercionRetryBounded ==
  [][ /\ (last_load'.res = "coerce" /\ nloads' = nloads + 1) =>
           /\ df'.str_cols = df.str_cols \cup {last_load'.col}
           /\ df'.src = df.src
           /\ nloads' <= total_upload_attempts
           /\ IF nloads' < total_upload_attempts
              THEN pc' = pc /\ index' = index /\ tgt' = tgt /\ attempt' = attempt + 1
              ELSE pc' \notin LoadPcs
      /\ (last_load.res = "coerce" /\ pc \in LoadPcs) =>
           /\ nloads' = nloads + 1
           /\ last_load'.phase = last_load.phase /\ last_load'.name = last_load.name
    ]_vars

\* C2 witness: the coercion failure on the last attempt of the budget: the
\* column is cast and the loop is over
C2_Witness ==
  /\ last_load.res = "coerce"
  /\ nloads = total_upload_attempts
  /\ last_load.col \in df.str_cols
  /\ pc \notin LoadPcs

\* C3: whatever fails in parsing, normalizing or uploading a matched tab,
\* the run goes on to the later tabs and the summary: no such failure makes
\* an exception leave main.
C3_RunReachesSummary ==
  ~(pc = "crashed" /\ exc \in {"NameError df", "UploadError"})

\* C4: at the end of a run that prints summaries, each phase reports that
\* all files were loaded exactly when every target of its mapping was
\* loaded successfully, and otherwise lists exactly the targets that were not.
C4_SummaryAccurate ==
  (pc = "done" /\ verbose >= 1) =>
    \A phase \in {"daily", "weekly"} :
      LET m == MappingOf(phase)
          notLoaded == { m[t].name : t \in { u \in DOMAIN m : m[u].rel \notin loaded } }
          listed == { line[3] : line \in { l \in printed : l[1] = "listed" /\ l[2] = phase } }
      IN  /\ (<<"all_loaded", phase, "">> \in printed) <=> (notLoaded = {})
          /\ (notLoaded # {}) => (listed = notLoaded)

\* C5: each actual tab of a workbook is uploaded to at most one destination
\* relation.
C5_OneRelationPerTab ==
  \A a, b \in loads :
    (a.phase = b.phase /\ a.index = b.index) => a.rel = b.rel

AllFourRules(col) ==
  LET prefixed == IF col # <<>> /\ Head(col) \in Digits THEN <<"_">> \o col ELSE col
      scaled == IF /\ Contains(prefixed, <<"1","0","0","0","0","0">>)
                   /\ ~Contains(prefixed, <<"1","0","0","0","0","0","0">>)
                THEN Replace(prefixed, <<"1","0","0","0","0","0">>, <<"1","0","0","k">>)
                ELSE prefixed
      underscored == ReplaceEach(scaled, <<" ", "/", "-">>, <<"_">>)
  IN  ReplaceEach(underscored, <<"(", ")", "*", ".", "=">>, <<>>)

\* C7: process_cols gives every column the name the four rules produce, and
\* a name that begins with a digit comes out beginning with an underscore.
C7_AllRulesApplied ==
  fpc = "return" =>
    \A i \in DOMAIN columns :
      /\ new_columns[i] = AllFourRules(columns[i])
      /\ Head(columns[i]) \in Digits =>
           (new_columns[i] # <<>> /\ Head(new_columns[i]) = "_")

\* C8: with messages on, a tab accepted under a name that differs from the
\* target has the discrepancy logged and goes on to be parsed, in the daily
\* and in the weekly phase.
C8_InexactMatchProceeds ==
  [][ (/\ AtMatch
       /\ verbose >= 1
       /\ CurAct # CurTgt.tab
       /\ levenshtein_dist_ok(CurAct, CurTgt.tab)) =>
        /\ pc' \in {"daily_parse", "weekly_parse"}
        /\ <<"mismatch", CurPhase, CurTgt.name>> \in printed'
    ]_vars

\* C9: every load call sends the table parsed and normalized from the tab
\* of its own loop iteration.
C9_LoadsCarryOwnTable ==
  \A l \in loads : l.src = <<l.phase, l.index>> /\ l.normalized

\* C10: a load that succeeds, on whichever attempt of the budget, leaves the
\* retry loop with the relation marked succeeded and the run going on.
C10_SuccessEndsLoop ==
  last_load.res = "ok" =>
    /\ pc \notin LoadPcs
    /\ pc # "crashed"
    /\ MarkedSucceeded(last_load.phase, last_load.name)

====
